---- MODULE Spec2Model ----
(***************************************************************************)
(* Model of the goproflow pipeline: the fragment segmenter and the          *)
(* per-file processor of noshake.py, the resolution index builder of        *)
(* index_by_resolution.py, the playlist writer of create_playlist.py, the   *)
(* per-group cutting and merging of concatenate_fragments.py and the        *)
(* stage runner of run_all.py.                                              *)
(*                                                                          *)
(* Numbers.  Timestamps, durations and min_duration_s are integers (one     *)
(* unit is one tick of the telemetry clock); Python's floats are exact on   *)
(* them, so float rounding is outside the model.                            *)
(***************************************************************************)
EXTENDS Integers, Sequences, FiniteSets, TLC

VARIABLES
    pc,               \* position of the modelled call or loop
    time,             \* find_fragments: argument `time`
    signal,           \* find_fragments: argument `signal`
    threshold,        \* find_fragments / process_directory: argument `threshold`
    min_duration_s,   \* find_fragments / process_directory: argument `min_duration_s`
    fragments,        \* find_fragments: the returned list
    telemetry,        \* cori_sliding_rms: what the telemetry extractor yields
    sliding_window_s, \* cori_sliding_rms / process_directory: `sliding_window_s`
    rms_out,          \* cori_sliding_rms: the returned tuple, or that it raised
    file_i,           \* process_directory: video files taken from the loop so far
    written,          \* process_directory: per-file JSON records written so far
    output_data,      \* process_directory: the record written last
    probed,           \* process_directory: what the last file's probes returned
    json_files,       \* gather_index: the directory's *.json files, in sorted path order
    index,            \* gather_index: the returned index, or that it raised
    index_data,       \* create_playlist: the loaded index.json
    pl_cuts,          \* create_playlist: per index entry taken so far, whether it was extracted
    fragments_extracted, \* create_playlist: the list process_all_fragments builds
    playlist,         \* create_playlist: the entries written to playlist.m3u
    cat_index,        \* concatenate_fragments: the loaded index.json
    keep_fragments,   \* concatenate_fragments: argument `keep_fragments`
    group_idx,        \* concatenate_fragments: groups taken from the loop so far
    group_log,        \* concatenate_fragments: what was done for each group taken
    args,             \* run_all: the parsed command line
    stages,           \* run_all: the stage scripts started so far, in order
    exit_status,      \* run_all: None while running, else the exit status
    reported,         \* run_all: "Pipeline completed" has been printed
    out_in_directory, \* index_by_resolution main: --out names a *.json file of `directory`
    runs              \* index_by_resolution main: what gather_index returned, per run

segVars == <<time, signal, fragments>>
rmsVars == <<telemetry, rms_out>>
dirVars == <<file_i, written, output_data, probed>>
idxVars == <<json_files, index>>
params == <<threshold, min_duration_s, sliding_window_s>>
plVars == <<index_data, pl_cuts, fragments_extracted, playlist>>
catVars == <<cat_index, keep_fragments, group_idx, group_log>>
runVars == <<args, stages, exit_status, reported>>
mainVars == <<out_in_directory, runs>>
stageVars == <<plVars, catVars, runVars, mainVars>>
coreVars == <<segVars, rmsVars, dirVars, idxVars, params>>
vars == <<pc, coreVars, stageVars>>

(***************************************************************************)
(* Bounds.                                                                  *)
(***************************************************************************)
\* longest strictly increasing timestamp sequence handed to find_fragments
MaxSamples == 5
\* longest arbitrary (unordered, repeating) timestamp sequence
MaxAnySamples == 3
\* largest timestamp of an arbitrary sequence
MaxTime == 2

\* most orientation samples of one telemetry stream (cori_sliding_rms)
MaxQuats == 4
\* samples of a clip long enough for a window longer than the clip to
\* leave non-zero squares out of its last value
LongSamples == 7
\* most orientation samples of one video of a processed directory
MaxDirQuats == 3
\* most directory entries process_directory iterates over
MaxEntries == 2
\* most *.json files in the directory gather_index scans
MaxJson == 2

SignalValues == {0, 1, 2}
Thresholds == {1, 2}
MinDurations == {0, 2, 3}
TimeSteps == {1, 2}
\* orientation angles about the one axis, in degrees
Angles == {0, 1, 2}
\* sliding_window_s in clock ticks; 6 ticks over a 2-sample clip is a
\* window whose half is longer than the clip
Windows == {1, 2, 3, 6}
\* per-video inputs of a processed directory
DirAngles == {0, 2}
DirTimeSteps == {1}
Durations == {0, 1, 4}
DirWindows == {1, 6}

(***************************************************************************)
(* Generic helpers.                                                         *)
(***************************************************************************)
\* t[1] = 0 and every step is drawn from steps (positive): strictly increasing
RECURSIVE ClockSeqs(_, _)
ClockSeqs(n, steps) ==
    IF n = 0 THEN {<<>>}
    ELSE IF n = 1 THEN {<<0>>}
    ELSE {Append(s, s[Len(s)] + d) : s \in ClockSeqs(n - 1, steps), d \in steps}

\* Python's None and a present value
None == <<>>
Some(x) == <<x>>

StrictlyIncreasing(s) == \A i \in 1..(Len(s) - 1) : s[i] < s[i + 1]

(***************************************************************************)
(* noshake.py: find_fragments                                               *)
(***************************************************************************)
\* a mutant of BelowMask, against which C1 is tested: <= for <
BelowMaskInclusive(sig, thr) == [i \in 1..Len(sig) |-> sig[i] <= thr]

\* line 191: below = signal < threshold
BelowMask(sig, thr) == [i \in 1..Len(sig) |-> sig[i] < thr]

\* lines 199-200: while i < N and below[i]: i += 1  (indices are 1-based
\* here, so the loop leaves i one past the run)
RECURSIVE RunEnd(_, _)
RunEnd(below, i) ==
    IF i <= Len(below) /\ below[i] THEN RunEnd(below, i + 1) ELSE i

\* a mutant of ScanRuns, against which C2 is tested: after a run the
\* scan resumes at the sample after the run's first one, not after the run
RECURSIVE ScanRunsRestart(_, _, _, _, _)
ScanRunsRestart(tm, below, mind, i, frags) ==
    IF i > Len(below) THEN [raised |-> FALSE, fragments |-> frags]
    ELSE IF below[i] THEN
        LET end_idx == RunEnd(below, i) - 1
        IN  IF i > Len(tm) \/ end_idx > Len(tm)
            THEN [raised |-> TRUE, fragments |-> <<>>]
            ELSE ScanRunsRestart(tm, below, mind, i + 1,
                                 IF tm[end_idx] - tm[i] >= mind
                                 THEN Append(frags, [start |-> tm[i], end |-> tm[end_idx]])
                                 ELSE frags)
    ELSE ScanRunsRestart(tm, below, mind, i + 1, frags)

\* a mutant of ScanRuns, against which C3 is tested: > for >= in the
\* minimum-duration test
RECURSIVE ScanRunsStrict(_, _, _, _, _)
ScanRunsStrict(tm, below, mind, i, frags) ==
    IF i > Len(below) THEN [raised |-> FALSE, fragments |-> frags]
    ELSE IF below[i] THEN
        LET next_i == RunEnd(below, i)
            end_idx == next_i - 1
        IN  IF i > Len(tm) \/ end_idx > Len(tm)
            THEN [raised |-> TRUE, fragments |-> <<>>]
            ELSE ScanRunsStrict(tm, below, mind, next_i,
                                IF tm[end_idx] - tm[i] > mind
                                THEN Append(frags, [start |-> tm[i], end |-> tm[end_idx]])
                                ELSE frags)
    ELSE ScanRunsStrict(tm, below, mind, i + 1, frags)

\* lines 196-210: the outer while loop from position i with the fragments
\* found so far.  time[idx] past the end of `time` raises IndexError.
RECURSIVE ScanRuns(_, _, _, _, _)
ScanRuns(tm, below, mind, i, frags) ==
    IF i > Len(below) THEN [raised |-> FALSE, fragments |-> frags]
    ELSE IF below[i] THEN
        LET start_idx == i
            next_i == RunEnd(below, i)
            end_idx == next_i - 1
        IN  IF start_idx > Len(tm) \/ end_idx > Len(tm)
            THEN [raised |-> TRUE, fragments |-> <<>>]
            ELSE LET t0 == tm[start_idx]
                     t1 == tm[end_idx]
                 IN  ScanRuns(tm, below, mind, next_i,
                              IF t1 - t0 >= mind
                              THEN Append(frags, [start |-> t0, end |-> t1])
                              ELSE frags)
    ELSE ScanRuns(tm, below, mind, i + 1, frags)

\* lines 179-212
FindFragments(tm, sig, thr, mind) ==
    ScanRuns(tm, BelowMask(sig, thr), mind, 1, <<>>)

(***************************************************************************)
(* noshake.py: extract_cori_quats and cori_sliding_rms                      *)
(*                                                                          *)
(* Orientations.  A telemetry stream is modelled for rotations about one    *)
(* fixed axis: an orientation is its angle in whole degrees (well below     *)
(* 180), R_curr * R_prev.inv() is the difference of two angles and the      *)
(* norm of a rotation vector is the absolute value of the angle.            *)
(*                                                                          *)
(* Intensities.  With a window of w samples the code computes               *)
(* sqrt(sum of w squares / w).  The model carries the windowed sum of       *)
(* squares (w * rms^2, an integer); an rms is below a threshold thr >= 0    *)
(* exactly when its sum is below thr^2 * w (ScaledThreshold).               *)
(***************************************************************************)
Abs(x) == IF x < 0 THEN -x ELSE x
Max(a, b) == IF a >= b THEN a ELSE b
Min(a, b) == IF a <= b THEN a ELSE b

RECURSIVE SumOver(_, _, _)
SumOver(s, lo, hi) == IF lo > hi THEN 0 ELSE s[lo] + SumOver(s, lo + 1, hi)

Repeat(v, n) == [i \in 1..n |-> v]

\* what GoProTelemetryExtractor.extract_data("CORI") hands back:
\*   "raises"     the extractor raises
\*   "matrix"     an n x 4 array q (n >= 0) and n timestamps t
\*   "flat"       a single quaternion as a 1-D array of size 4
\*   "flat_other" a 1-D array of another, non-zero size
\* lines 12-34
ExtractCoriQuats(tele) ==
    IF tele.kind = "raises" THEN [raised |-> TRUE, q |-> <<>>, t |-> <<>>]
    ELSE IF tele.kind = "matrix" /\ Len(tele.q) = 0
        THEN [raised |-> FALSE, q |-> <<>>, t |-> <<>>]
    ELSE IF tele.kind = "flat_other"
        THEN [raised |-> FALSE, q |-> <<>>, t |-> tele.t]
    ELSE [raised |-> FALSE, q |-> tele.q, t |-> tele.t]

\* lines 55-57: R_rel = R_curr * R_prev.inv()
RelativeRotations(r) == [i \in 1..(Len(r) - 1) |-> r[i + 1] - r[i]]

\* lines 54-61
AngleDeg(R_all) ==
    IF Len(R_all) > 1
    THEN <<0>> \o [i \in 1..(Len(R_all) - 1) |-> Abs(RelativeRotations(R_all)[i])]
    ELSE <<0>>

\* lines 64-71, R_rel given
AngleAcc(R_rel) ==
    IF Len(R_rel) > 1
    THEN <<0, 0>> \o [i \in 1..(Len(R_rel) - 1) |-> Abs(RelativeRotations(R_rel)[i])]
    ELSE <<0, 0>>

\* the k-th smallest element of a non-empty sequence
KthSmallest(s, k) ==
    CHOOSE v \in {s[i] : i \in 1..Len(s)} :
        /\ Cardinality({i \in 1..Len(s) : s[i] < v}) < k
        /\ Cardinality({i \in 1..Len(s) : s[i] <= v}) >= k

\* twice np.median(s) of a non-empty sequence (an integer)
TwiceMedian(s) ==
    IF Len(s) % 2 = 1
    THEN 2 * KthSmallest(s, (Len(s) + 1) \div 2)
    ELSE KthSmallest(s, Len(s) \div 2) + KthSmallest(s, Len(s) \div 2 + 1)

\* line 74, doubled: dt = np.median(np.diff(t)) if len(t) > 1 else 1.0
TwiceDt(t) ==
    IF Len(t) > 1 THEN TwiceMedian([i \in 1..(Len(t) - 1) |-> t[i + 1] - t[i]])
    ELSE 2

\* lines 75 and 78: fs = 1.0 / dt; win_samples = max(1, int(sliding_window_s * fs)).
\* int() truncates towards zero; dt = 0 gives fs = inf and int() raises
\* (WinSamples is used only for dt # 0).
WinSamples(window, dt2) ==
    IF dt2 < 0 THEN 1 ELSE Max(1, (2 * window) \div dt2)

\* line 81 without the 1/w and the square root: np.convolve(sq, ones(w),
\* mode='same').  The result has max(N, w) entries; entry k (0-based) is
\* entry k + (min(N, w) - 1) // 2 of the full convolution.
ConvolveSame(sq, w) ==
    LET N == Len(sq)
        off == (Min(N, w) - 1) \div 2
    IN  [k \in 1..Max(N, w) |->
            LET j == (k - 1) + off
            IN  SumOver(sq, Max(0, j - w + 1) + 1, Min(N - 1, j) + 1)]

\* line 83: concatenate([sliding_rms[half_len:len(t)], [sliding_rms[-1]] * half_len])
Realign(c, half_len, len_t) ==
    SubSeq(c, half_len + 1, Min(len_t, Len(c))) \o Repeat(c[Len(c)], half_len)

RmsRaised == [raised |-> TRUE, t |-> <<>>, angle_deg |-> <<>>, angle_acc |-> <<>>,
              sliding_rms |-> <<>>, win_samples |-> 0]

\* lines 37-85.  len(R_rel) at line 64 reads a name that line 57 binds only
\* when there is more than one sample: with one sample it raises
\* UnboundLocalError.
CoriSlidingRms(tele, window) ==
    LET x == ExtractCoriQuats(tele)
    IN  IF x.raised THEN RmsRaised
        ELSE IF Len(x.q) = 0
            THEN [raised |-> FALSE, t |-> <<>>, angle_deg |-> <<>>, angle_acc |-> <<>>,
                  sliding_rms |-> <<>>, win_samples |-> 0]
        ELSE IF Len(x.q) = 1 THEN RmsRaised
        ELSE LET R_rel == RelativeRotations(x.q)
                 angle_acc == AngleAcc(R_rel)
                 dt2 == TwiceDt(x.t)
             IN  IF dt2 = 0 THEN RmsRaised
                 ELSE LET win_samples == WinSamples(window, dt2)
                          sq == [i \in 1..Len(angle_acc) |-> angle_acc[i] * angle_acc[i]]
                      IN  [raised |-> FALSE,
                           t |-> x.t,
                           angle_deg |-> AngleDeg(x.q),
                           angle_acc |-> angle_acc,
                           sliding_rms |-> Realign(ConvolveSame(sq, win_samples),
                                                   win_samples \div 2, Len(x.t)),
                           win_samples |-> win_samples]

\* rms < thr on the carried sums: sum < thr^2 * w (thr >= 0)
ScaledThreshold(thr, win_samples) == thr * thr * win_samples

(***************************************************************************)
(* Values of the variables a specification does not use.                    *)
(***************************************************************************)
NoTelemetry == [kind |-> "matrix", q |-> <<>>, t |-> <<>>]
NoRecord == [video |-> 0, resolution |-> None, creation_datetime |-> None,
             fragments |-> <<>>]
NoProbe == [video |-> 0, extract_raised |-> FALSE, samples |-> 0, duration |-> None]

SegIdle == time = <<>> /\ signal = <<>> /\ fragments = <<>>
RmsIdle == telemetry = NoTelemetry /\ rms_out = RmsRaised
DirIdle == file_i = 0 /\ written = 0 /\ output_data = NoRecord /\ probed = NoProbe
IdxIdle == json_files = <<>> /\ index = [raised |-> FALSE, groups |-> <<>>]
ParamsIdle == threshold = 0 /\ min_duration_s = 0 /\ sliding_window_s = 0
PlIdle ==
    /\ index_data = <<>> /\ pl_cuts = <<>> /\ fragments_extracted = <<>>
    /\ playlist = [raised |-> FALSE, entries |-> <<>>]
CatIdle ==
    /\ cat_index = <<>> /\ keep_fragments = FALSE /\ group_idx = 0
    /\ group_log = <<>>
RunIdle ==
    /\ args = [skip_noshake |-> FALSE, skip_index |-> FALSE, skip_concat |-> FALSE,
               playlist |-> FALSE, keep_fragments |-> FALSE]
    /\ stages = <<>> /\ exit_status = None /\ reported = FALSE
MainIdle == out_in_directory = FALSE /\ runs = <<>>
StageIdle == PlIdle /\ CatIdle /\ RunIdle /\ MainIdle
CoreIdle == SegIdle /\ RmsIdle /\ DirIdle /\ IdxIdle /\ ParamsIdle

(***************************************************************************)
(* Specification SpecSeg: find_fragments applied to drawn inputs.           *)
(***************************************************************************)
\* spec section 8: timestamps 0..10 at 1 Hz, samples 4.0 and 5.0 above
ExampleTime == [i \in 1..11 |-> i - 1]
ExampleSignal == [i \in 1..11 |-> IF i \in {5, 6} THEN 1 ELSE 0]

\* the inputs: strictly increasing clocks of up to MaxSamples samples,
\* arbitrary timestamp sequences of up to MaxAnySamples samples, and the
\* example; the signal is as long as the timestamps
InitSeg ==
    /\ pc = "start"
    /\ \/ \E n \in 0..MaxSamples :
              time \in ClockSeqs(n, TimeSteps) /\ signal \in [1..n -> SignalValues]
       \/ \E n \in 1..MaxAnySamples :
              time \in [1..n -> 0..MaxTime] /\ signal \in [1..n -> SignalValues]
       \/ time = ExampleTime /\ signal = ExampleSignal
    /\ threshold \in Thresholds
    /\ min_duration_s \in MinDurations
    /\ fragments = <<>>
    /\ sliding_window_s = 0
    /\ RmsIdle /\ DirIdle /\ IdxIdle /\ StageIdle

CallFindFragments ==
    /\ pc = "start"
    /\ fragments' = FindFragments(time, signal, threshold, min_duration_s).fragments
    /\ pc' = "done"
    /\ UNCHANGED <<time, signal, params, rmsVars, dirVars, idxVars, stageVars>>

NextSeg == CallFindFragments

SpecSeg == InitSeg /\ [][NextSeg]_vars

(***************************************************************************)
(* Claims about find_fragments (checked under SpecSeg).                     *)
(***************************************************************************)
SegDone == pc = "done"

\* every fragment is long enough and every sample whose timestamp lies in
\* it is strictly below the threshold
FragmentsCalmAndLong ==
    \A k \in 1..Len(fragments) :
        /\ fragments[k].end - fragments[k].start >= min_duration_s
        /\ \A i \in 1..Len(time) :
               (fragments[k].start <= time[i] /\ time[i] <= fragments[k].end)
                   => signal[i] < threshold

\* C1 as stated: for EVERY timestamp sequence (ordered or not) and
\* equal-length signal, each returned fragment (t0, t1) has
\* t1 - t0 >= min_duration_s and every sample with timestamp in [t0, t1] is
\* strictly below the threshold.
C1_AnyTimestamps == SegDone => FragmentsCalmAndLong

\* C1 amended: the same for every STRICTLY INCREASING timestamp sequence.
C1_IncreasingTimestamps ==
    (SegDone /\ StrictlyIncreasing(time)) => FragmentsCalmAndLong

\* C1 witness: an increasing clip with a sample at or above the threshold
\* and a returned fragment of positive length.
C1_Witness ==
    /\ SegDone /\ StrictlyIncreasing(time)
    /\ \E i \in 1..Len(signal) : signal[i] = threshold
    /\ \E k \in 1..Len(fragments) : fragments[k].end > fragments[k].start

MaximalRuns ==
    {r \in (1..Len(signal)) \X (1..Len(signal)) :
        /\ r[1] <= r[2]
        /\ \A i \in r[1]..r[2] : signal[i] < threshold
        /\ (r[1] = 1 \/ ~(signal[r[1] - 1] < threshold))
        /\ (r[2] = Len(signal) \/ ~(signal[r[2] + 1] < threshold))}

QualifyingRuns ==
    {r \in MaximalRuns : time[r[2]] - time[r[1]] >= min_duration_s}

\* C3: the returned list holds exactly one fragment per maximal
\* below-threshold run [i, j] with time[j] - time[i] >= min_duration_s, in
\* run order, its bounds the timestamps of the run's first and last sample,
\* and nothing else; with increasing timestamps a below-threshold sample
\* outside every fragment lies in a maximal run shorter than
\* min_duration_s; the 0..10 example yields (0, 3) and (6, 10).
C3_OneFragmentPerQualifyingRun ==
    SegDone =>
        /\ Len(fragments) = Cardinality(QualifyingRuns)
        /\ \A r \in QualifyingRuns :
               fragments[Cardinality({q \in QualifyingRuns : q[1] <= r[1]})]
                   = [start |-> time[r[1]], end |-> time[r[2]]]
        /\ StrictlyIncreasing(time) =>
               \A i \in 1..Len(signal) :
                   (/\ signal[i] < threshold
                    /\ ~\E k \in 1..Len(fragments) :
                           fragments[k].start <= time[i] /\ time[i] <= fragments[k].end)
                   => \E r \in MaximalRuns \ QualifyingRuns : r[1] <= i /\ i <= r[2]
        /\ (time = ExampleTime /\ signal = ExampleSignal
                /\ threshold = 1 /\ min_duration_s = 3)
               => fragments = <<[start |-> 0, end |-> 3], [start |-> 6, end |-> 10]>>

\* C3 witness: one call with a qualifying run, a run too short to qualify
\* and a run that meets min_duration_s exactly.
C3_Witness ==
    /\ SegDone
    /\ min_duration_s > 0
    /\ MaximalRuns \ QualifyingRuns # {}
    /\ \E r \in QualifyingRuns : time[r[2]] - time[r[1]] = min_duration_s
    /\ Len(fragments) >= 1

(***************************************************************************)
(* Specification SpecRms: cori_sliding_rms applied to drawn telemetry.      *)
(***************************************************************************)
MatrixTelemetry(n, angles, steps) ==
    {[kind |-> "matrix", q |-> q, t |-> t] :
        q \in [1..n -> angles], t \in ClockSeqs(n, steps)}

TelemetryInputs(maxn, angles, steps) ==
    {[kind |-> "raises", q |-> <<>>, t |-> <<>>],
     [kind |-> "flat_other", q |-> <<>>, t |-> <<0>>]}
    \cup {[kind |-> "flat", q |-> <<a>>, t |-> <<0>>] : a \in angles}
    \cup UNION {MatrixTelemetry(n, angles, steps) : n \in 0..maxn}

\* clips of LongSamples samples at one tick per sample
LongTelemetry ==
    {[kind |-> "matrix", q |-> q, t |-> [i \in 1..LongSamples |-> i - 1]] :
        q \in [1..LongSamples -> {0, 1}]}

InitRms ==
    /\ pc = "start"
    /\ \/ /\ telemetry \in TelemetryInputs(MaxQuats, Angles, TimeSteps)
          /\ sliding_window_s \in Windows
       \/ /\ telemetry \in LongTelemetry
          /\ sliding_window_s \in {LongSamples - 1, LongSamples + 1}
    /\ rms_out = RmsRaised
    /\ threshold = 0 /\ min_duration_s = 0
    /\ SegIdle /\ DirIdle /\ IdxIdle /\ StageIdle

CallCoriSlidingRms ==
    /\ pc = "start"
    /\ rms_out' = CoriSlidingRms(telemetry, sliding_window_s)
    /\ pc' = "done"
    /\ UNCHANGED <<telemetry, params, segVars, dirVars, idxVars, stageVars>>

NextRms == CallCoriSlidingRms

SpecRms == InitRms /\ [][NextRms]_vars

(***************************************************************************)
(* Claims about cori_sliding_rms (checked under SpecRms).                   *)
(***************************************************************************)
RmsDone == pc = "done"

\* the number of orientation samples the extractor yielded
SampleCount == IF telemetry.kind \in {"matrix", "flat"} THEN Len(telemetry.q) ELSE 0

\* C6: for every non-empty sample sequence and every window size the
\* intensity signal cori_sliding_rms returns has exactly as many values as
\* there are timestamps.
C6_IntensityLengthMatches ==
    (RmsDone /\ SampleCount >= 1 /\ ~rms_out.raised) =>
        Len(rms_out.sliding_rms) = Len(rms_out.t)

\* C7: for every sample count n >= 1 the call returns without error a
\* displacement and an acceleration sequence of length exactly n, with
\* displacement[0] = 0 and the first two acceleration entries 0; fewer than
\* 3 samples give an all-zero acceleration of length n.
C7_MotionSignalLengths ==
    (RmsDone /\ SampleCount >= 1) =>
        /\ ~rms_out.raised
        /\ Len(rms_out.angle_deg) = SampleCount
        /\ Len(rms_out.angle_acc) = SampleCount
        /\ rms_out.angle_deg[1] = 0
        /\ \A i \in 1..Min(2, SampleCount) : rms_out.angle_acc[i] = 0
        /\ SampleCount < 3 => \A i \in 1..SampleCount : rms_out.angle_acc[i] = 0

\* C7 for two samples and more, where the code agrees with it
C7_FromTwoSamples == (RmsDone /\ SampleCount >= 2) => C7_MotionSignalLengths

\* C6 where half the window fits into the clip
C6_HalfWindowFits ==
    (RmsDone /\ SampleCount >= 2 /\ ~rms_out.raised
        /\ rms_out.win_samples \div 2 <= SampleCount) =>
        Len(rms_out.sliding_rms) = Len(rms_out.t)

(***************************************************************************)
(* noshake.py: process_directory                                            *)
(***************************************************************************)
\* a mutant of FallbackFragments, against which C5 is tested: a file
\* without telemetry is always skipped
FallbackFragmentsSkip(duration) == <<>>

\* lines 243-249: the whole-file fallback
FallbackFragments(duration) ==
    IF duration = None THEN <<>>
    ELSE <<[start |-> 0, end |-> duration[1]]>>

\* lines 235-256: the fragments of one video, or that the iteration raised
VideoFragments(tele, duration, thr, mind, window) ==
    LET r == CoriSlidingRms(tele, window)
    IN  IF r.raised THEN [raised |-> TRUE, fragments |-> <<>>]
        ELSE IF Len(r.sliding_rms) = 0
            THEN [raised |-> FALSE, fragments |-> FallbackFragments(duration)]
        ELSE FindFragments(r.t, r.sliding_rms,
                           ScaledThreshold(thr, r.win_samples), mind)

(***************************************************************************)
(* Specification SpecDir: process_directory over a directory whose          *)
(* entries, and what the probes of each video return, are drawn as the      *)
(* loop reaches them.  Entry k's name is k (the loop runs in sorted         *)
(* order); the JSON records are independent of each other, so the state     *)
(* keeps their count and the one written last.  probed remembers, of the    *)
(* video taken last, how many samples the extractor yielded and what        *)
(* ffprobe gave as duration.                                                *)
(***************************************************************************)
DirResolutions == {None, Some([width |-> 1920, height |-> 1080])}
DirCreations == {Some([form |-> "z", instant |-> 1])}

InitDir ==
    /\ pc = "loop"
    /\ threshold \in Thresholds
    /\ min_duration_s \in MinDurations
    /\ sliding_window_s \in DirWindows
    /\ DirIdle /\ SegIdle /\ RmsIdle /\ IdxIdle /\ StageIdle

\* lines 228-231: a directory, or a file that is no video
SkipEntry ==
    /\ pc = "loop"
    /\ file_i < MaxEntries
    /\ file_i' = file_i + 1
    /\ UNCHANGED <<pc, written, output_data, probed, params, segVars, rmsVars, idxVars, stageVars>>

\* lines 232-282: one video
ProcessVideo ==
    /\ pc = "loop"
    /\ file_i < MaxEntries
    /\ \E tele \in TelemetryInputs(MaxDirQuats, DirAngles, DirTimeSteps),
          duration \in {None} \cup {Some(d) : d \in Durations},
          resolution \in DirResolutions,
          creation_datetime \in DirCreations :
          LET found == VideoFragments(tele, duration, threshold, min_duration_s,
                                      sliding_window_s)
          IN  /\ file_i' = file_i + 1
              /\ probed' = [video |-> file_i + 1,
                            extract_raised |-> ExtractCoriQuats(tele).raised,
                            samples |-> Len(ExtractCoriQuats(tele).q),
                            duration |-> duration]
              /\ IF found.raised
                 THEN /\ pc' = "raised"
                      /\ UNCHANGED <<written, output_data>>
                 ELSE /\ pc' = "loop"
                      /\ written' = written + 1
                      /\ output_data' = [video |-> file_i + 1,
                                         resolution |-> resolution,
                                         creation_datetime |-> creation_datetime,
                                         fragments |-> found.fragments]
    /\ UNCHANGED <<params, segVars, rmsVars, idxVars, stageVars>>

\* line 227: the loop is exhausted
EndOfDirectory ==
    /\ pc = "loop"
    /\ file_i = MaxEntries
    /\ pc' = "done"
    /\ UNCHANGED <<dirVars, params, segVars, rmsVars, idxVars, stageVars>>

NextDir == SkipEntry \/ ProcessVideo \/ EndOfDirectory

SpecDir == InitDir /\ [][NextDir]_vars

(***************************************************************************)
(* Claims about process_directory (checked under SpecDir).                  *)
(***************************************************************************)
\* the last video's extractor result had q.size == 0: no telemetry, an
\* empty motion signal
TelemetryEmpty == probed.video >= 1 /\ ~probed.extract_raised /\ probed.samples = 0

\* C4: every fragment written into a per-file record has end > start and
\* end - start >= min_duration_s, from the segmenter or from the
\* whole-file fallback, for every min_duration_s and file duration.
C4_WrittenFragmentsLongEnough ==
    written >= 1 =>
        \A k \in 1..Len(output_data.fragments) :
            /\ output_data.fragments[k].end > output_data.fragments[k].start
            /\ output_data.fragments[k].end - output_data.fragments[k].start
                   >= min_duration_s

\* C4 for the segmenter's fragments under a positive min_duration_s, where
\* the code agrees with it
C4_SegmenterFragments ==
    (written >= 1 /\ min_duration_s > 0 /\ probed.video = output_data.video
        /\ ~TelemetryEmpty) =>
        \A k \in 1..Len(output_data.fragments) :
            /\ output_data.fragments[k].end > output_data.fragments[k].start
            /\ output_data.fragments[k].end - output_data.fragments[k].start
                   >= min_duration_s

\* C5: a video whose telemetry is absent or empty gets a record with exactly
\* the one fragment (0, duration) when the duration is known and with no
\* fragment when it is not; the record is written and the loop goes on to
\* the next entry.
C5_FallbackRecord ==
    TelemetryEmpty =>
        /\ output_data.video = probed.video
        /\ written >= 1
        /\ output_data.fragments =
               IF probed.duration = None THEN <<>>
               ELSE <<[start |-> 0, end |-> probed.duration[1]]>>
        /\ pc \in {"loop", "done"}

\* C5 witness: the second video of a directory has no telemetry and a known
\* duration; both records are written and the loop is still running.
C5_Witness ==
    /\ probed.video = 2 /\ TelemetryEmpty
    /\ probed.duration # None
    /\ written = 2 /\ Len(output_data.fragments) = 1
    /\ pc = "loop"

\* the video taken last failed: its extractor raised, or its stream has a
\* single sample, or it is shorter than half the smoothing window
LastVideoFailed ==
    /\ probed.video >= 1
    /\ \/ probed.extract_raised
       \/ probed.samples = 1
       \/ probed.samples >= 2 /\ sliding_window_s \div 2 > probed.samples

\* C11: no failure while processing one video (the extractor raising, a
\* single-sample stream, a clip shorter than half the smoothing window)
\* keeps the remaining files of the directory from being processed: the
\* loop goes on (or ends with the directory), it is never left by an
\* exception.
C11_FailureLeavesLoopRunning ==
    LastVideoFailed => pc \in {"loop", "done"}

\* C11 where the code agrees with it: a video whose stream is empty or has
\* at least 2 samples and half a window that fits into it never stops the loop
C11_SoundStreamsLeaveLoopRunning ==
    (probed.video >= 1 /\ ~LastVideoFailed) => pc \in {"loop", "done"}

(***************************************************************************)
(* index_by_resolution.py                                                   *)
(*                                                                          *)
(* Strings that the code orders or builds are sequences of character        *)
(* codes ("0" is 48, "x" is 120), compared as Python compares str.  A       *)
(* creation time string is [form, instant]: form "naive" (no offset), "z"   *)
(* (trailing Z), "offset" (trailing +00:00) or "bad" (no ISO-8601 text);    *)
(* a datetime is [aware, instant].  A file name is [stem, ext].             *)
(***************************************************************************)
\* str(n) of an integer n >= 0
RECURSIVE Decimal(_)
Decimal(n) ==
    IF n < 10 THEN <<48 + n>> ELSE Append(Decimal(n \div 10), 48 + (n % 10))

\* a < b on str
StrLess(a, b) ==
    \E i \in 1..Len(b) :
        /\ i <= Len(a) + 1
        /\ \A j \in 1..(i - 1) : a[j] = b[j]
        /\ IF i = Len(a) + 1 THEN TRUE ELSE a[i] < b[i]

\* list.sort(key=...) and sorted(): a stable sort; less[i][j] is
\* key(s[i]) < key(s[j]).  Element i goes behind every element with a
\* smaller key and behind the earlier elements with an equal key.
StableSort(s, less) ==
    LET n == Len(s)
        Pos(i) == 1 + Cardinality({j \in 1..n : less[j][i]})
                    + Cardinality({j \in 1..(i - 1) : ~less[i][j] /\ ~less[j][i]})
    IN  [p \in 1..n |-> s[CHOOSE i \in 1..n : Pos(i) = p]]

\* lines 25-36
ParseIsoDatetime(s) ==
    IF s = None THEN None
    ELSE IF s[1].form = "naive" THEN Some([aware |-> FALSE, instant |-> s[1].instant])
    ELSE IF s[1].form \in {"z", "offset"}
        THEN Some([aware |-> TRUE, instant |-> s[1].instant])
    ELSE None

\* datetime.isoformat() (line 114): an aware datetime is written with its
\* offset, never with a trailing Z
IsoFormat(dt) ==
    [form |-> IF dt.aware THEN "offset" ELSE "naive", instant |-> dt.instant]

\* f"{w}" of a JSON value
FormatValue(v) == IF v.is_int THEN Decimal(v.n) ELSE v.text

\* "unknown"
UnknownKey == <<117, 110, 107, 110, 111, 119, 110>>

\* lines 48-55.  res is None, an object (its width and height each absent
\* or a JSON value) or another non-empty JSON value, on which .get raises.
ResolutionKey(res) ==
    IF res = None THEN [raised |-> FALSE, key |-> UnknownKey]
    ELSE IF res[1].shape = "other" THEN [raised |-> TRUE, key |-> <<>>]
    ELSE IF res[1].width = None \/ res[1].height = None
        THEN [raised |-> FALSE, key |-> UnknownKey]
    ELSE [raised |-> FALSE,
          key |-> FormatValue(res[1].width[1]) \o <<120>>
                      \o FormatValue(res[1].height[1])]

\* a mutant of SortByStart, against which C8 is tested: the fragments
\* of a file are left in the order of the metadata file
SortByStartNot(frs) == frs

\* line 95: normalized.sort(key=lambda x: x["start"])
SortByStart(frs) ==
    StableSort(frs, [i \in 1..Len(frs) |-> [j \in 1..Len(frs) |->
                        frs[i].start < frs[j].start]])

\* lines 75-95: the fragments of one metadata file, normalised, filtered and
\* sorted.  A malformed item (no dict, a missing or non-numeric start or
\* end) raises inside the try and is skipped.
Normalized(raw) ==
    IF ~raw.is_list THEN <<>>
    ELSE LET kept == SelectSeq(raw.items, LAMBDA f : f.ok /\ f.end >= f.start)
         IN  SortByStart([i \in 1..Len(kept) |->
                             [start |-> kept[i].start, end |-> kept[i].end]])

\* line 68: data.get("video") or json_path.with_suffix('.MP4').name
Filename(k, data) ==
    IF data.video # None THEN data.video[1] ELSE [stem |-> k, ext |-> "MP4"]

\* line 103: groups.setdefault(res_str, []).append(entry); groups is kept in
\* insertion order
AddToGroup(groups, res_str, entry) ==
    IF \E g \in 1..Len(groups) : groups[g].resolution = res_str
    THEN [g \in 1..Len(groups) |->
             IF groups[g].resolution = res_str
             THEN [groups[g] EXCEPT !.entries = Append(@, entry)]
             ELSE groups[g]]
    ELSE Append(groups, [resolution |-> res_str, entries |-> <<entry>>])

\* lines 62-103: the loop over the sorted *.json files from file k on.  A
\* file that does not load is skipped; a file whose top level is a JSON
\* array has no .get, and line 68 raises.
RECURSIVE LoadFiles(_, _, _)
LoadFiles(files, k, groups) ==
    IF k > Len(files) THEN [raised |-> FALSE, groups |-> groups]
    ELSE LET data == files[k]
         IN  IF data.kind = "unloadable" THEN LoadFiles(files, k + 1, groups)
             ELSE IF data.kind = "array" THEN [raised |-> TRUE, groups |-> <<>>]
             ELSE LET res == ResolutionKey(data.resolution)
                  IN  IF res.raised THEN [raised |-> TRUE, groups |-> <<>>]
                      ELSE LoadFiles(files, k + 1,
                               AddToGroup(groups, res.key,
                                   [filename |-> Filename(k, data),
                                    creation_datetime |->
                                        ParseIsoDatetime(data.creation_datetime),
                                    fragments |-> Normalized(data.fragments)]))

\* the key of line 109, (creation is None, creation), compared
CreationLess(a, b) ==
    \/ a.creation_datetime # None /\ b.creation_datetime = None
    \/ /\ a.creation_datetime # None /\ b.creation_datetime # None
       /\ a.creation_datetime[1].instant < b.creation_datetime[1].instant

\* comparing an offset-naive with an offset-aware datetime raises
\* TypeError; a sort of entries holding both kinds has to compare two
MixedAwareness(entries) ==
    \E i, j \in 1..Len(entries) :
        /\ entries[i].creation_datetime # None
        /\ entries[j].creation_datetime # None
        /\ entries[i].creation_datetime[1].aware
        /\ ~entries[j].creation_datetime[1].aware

\* a mutant of SortEntries, against which C10 is tested: files without
\* a creation time are put first
SortEntriesAbsentFirst(entries) ==
    StableSort(entries, [i \in 1..Len(entries) |-> [j \in 1..Len(entries) |->
        LET a == entries[i]
            b == entries[j]
        IN  \/ a.creation_datetime = None /\ b.creation_datetime # None
            \/ /\ a.creation_datetime # None /\ b.creation_datetime # None
               /\ a.creation_datetime[1].instant < b.creation_datetime[1].instant]])

\* line 109: entries.sort(key=lambda e: (creation is None, creation))
SortEntries(entries) ==
    StableSort(entries, [i \in 1..Len(entries) |-> [j \in 1..Len(entries) |->
                            CreationLess(entries[i], entries[j])]])

\* a mutant of SortGroups, against which C9 is tested: the groups are
\* left in the order in which their first file was read
SortGroupsNot(groups) == groups

\* line 107: sorted(groups.items()); the keys differ, so the key decides
SortGroups(groups) ==
    StableSort(groups, [i \in 1..Len(groups) |-> [j \in 1..Len(groups) |->
                           StrLess(groups[i].resolution, groups[j].resolution)]])

\* lines 111-120: the fragments of the sorted entries from entry i on
RECURSIVE FileFragments(_, _)
FileFragments(entries, i) ==
    IF i > Len(entries) THEN <<>>
    ELSE LET e == entries[i]
             creation_str == IF e.creation_datetime # None
                             THEN Some(IsoFormat(e.creation_datetime[1]))
                             ELSE None
         IN  [f \in 1..Len(e.fragments) |->
                 [creation |-> creation_str,
                  filename |-> e.filename,
                  start |-> e.fragments[f].start,
                  end |-> e.fragments[f].end]]
             \o FileFragments(entries, i + 1)

\* lines 105-127
BuildIndex(groups) ==
    IF \E g \in 1..Len(groups) : MixedAwareness(groups[g].entries)
    THEN [raised |-> TRUE, groups |-> <<>>]
    ELSE LET sorted == SortGroups(groups)
         IN  [raised |-> FALSE,
              groups |-> [g \in 1..Len(sorted) |->
                             [resolution |-> sorted[g].resolution,
                              file_fragments |->
                                  FileFragments(SortEntries(sorted[g].entries), 1)]]]

\* lines 58-127
GatherIndex(files) ==
    LET loaded == LoadFiles(files, 1, <<>>)
    IN  IF loaded.raised THEN [raised |-> TRUE, groups |-> <<>>]
        ELSE BuildIndex(loaded.groups)

(***************************************************************************)
(* Specification SpecIdx: gather_index applied to a drawn directory.  The   *)
(* file at position k was written for video k, so its video field, when     *)
(* present, names video k.                                                  *)
(***************************************************************************)
IntValue(n) == [is_int |-> TRUE, n |-> n, text |-> <<>>]
\* the JSON string "w" where a number belongs
TextValue == [is_int |-> FALSE, n |-> 0, text |-> <<119>>]

Resolution(w, h) == Some([shape |-> "object", width |-> w, height |-> h])
IdxResolutions ==
    {None,
     Resolution(Some(IntValue(1920)), Some(IntValue(1080))),
     Resolution(Some(IntValue(1080)), Some(IntValue(1920))),
     Resolution(Some(IntValue(720)), Some(IntValue(480)))}
IdxCreations ==
    {None,
     Some([form |-> "naive", instant |-> 1]),
     Some([form |-> "naive", instant |-> 2]),
     Some([form |-> "z", instant |-> 1])}

Item(s, e) == [ok |-> TRUE, start |-> s, end |-> e]
Malformed == [ok |-> FALSE, start |-> 0, end |-> 0]
List(items) == [is_list |-> TRUE, items |-> items]
IdxFragmentLists ==
    {List(<<Item(3, 5), Item(0, 2)>>), List(<<Item(1, 4)>>)}

JsonObject(video, res, creation, frs) ==
    [kind |-> "object", video |-> video, resolution |-> res,
     creation_datetime |-> creation, fragments |-> frs]

\* the metadata noshake.py writes, and metadata damaged in one place; the
\* video field, when present, is filled in by VideoNamed
JsonInputs ==
    LET name == Some([stem |-> 0, ext |-> "mp4"])
        res == Resolution(Some(IntValue(1920)), Some(IntValue(1080)))
        cre == Some([form |-> "naive", instant |-> 1])
        frs == List(<<Item(1, 4)>>)
    IN  {JsonObject(name, r, c, f) :
            r \in IdxResolutions, c \in IdxCreations, f \in IdxFragmentLists}
        \cup {[kind |-> "unloadable", video |-> None, resolution |-> None,
               creation_datetime |-> None, fragments |-> List(<<>>)],
              [kind |-> "array", video |-> None, resolution |-> None,
               creation_datetime |-> None, fragments |-> List(<<>>)],
              JsonObject(None, res, cre, frs),
              JsonObject(name, res, Some([form |-> "bad", instant |-> 0]), frs),
              JsonObject(name, Some([shape |-> "other", width |-> None,
                                        height |-> None]), cre, frs),
              JsonObject(name, Resolution(None, Some(IntValue(1080))), cre, frs),
              JsonObject(name, Resolution(Some(TextValue), Some(IntValue(1080))),
                         cre, frs),
              JsonObject(name, res, cre, [is_list |-> FALSE, items |-> <<>>]),
              JsonObject(name, res, cre, List(<<>>)),
              JsonObject(name, res, cre,
                         List(<<Malformed, Item(2, 1), Item(3, 3), Item(0, 2)>>))}

\* line 266 of noshake.py: the record of video k names video k
VideoNamed(data, k) ==
    IF data.video # None
    THEN [data EXCEPT !.video = Some([stem |-> k, ext |-> "mp4"])]
    ELSE data

InitIdx ==
    /\ pc = "start"
    /\ \E n \in 0..MaxJson :
           \E files \in [1..n -> JsonInputs] :
               json_files = [k \in 1..n |-> VideoNamed(files[k], k)]
    /\ index = [raised |-> FALSE, groups |-> <<>>]
    /\ threshold = 0 /\ min_duration_s = 0 /\ sliding_window_s = 0
    /\ SegIdle /\ RmsIdle /\ DirIdle /\ StageIdle

CallGatherIndex ==
    /\ pc = "start"
    /\ index' = GatherIndex(json_files)
    /\ pc' = "done"
    /\ UNCHANGED <<json_files, params, segVars, rmsVars, dirVars, stageVars>>

NextIdx == CallGatherIndex

SpecIdx == InitIdx /\ [][NextIdx]_vars

(***************************************************************************)
(* Claims about gather_index (checked under SpecIdx).                       *)
(***************************************************************************)
IndexProduced == pc = "done" /\ ~index.raised

\* (creation is absent, creation) of entry a is smaller than that of entry b
EntryCreationLess(a, b) ==
    \/ a.creation # None /\ b.creation = None
    \/ /\ a.creation # None /\ b.creation # None
       /\ a.creation[1].instant < b.creation[1].instant

\* (creation is absent, creation, start) of a is at most that of b
TripleLeq(a, b) ==
    \/ EntryCreationLess(a, b)
    \/ ~EntryCreationLess(b, a) /\ a.start <= b.start

\* two different files of the list have the same (or both no) creation time
SharedCreation(ff) ==
    \E i, j \in 1..Len(ff) :
        /\ ff[i].filename # ff[j].filename
        /\ ~EntryCreationLess(ff[i], ff[j])
        /\ ~EntryCreationLess(ff[j], ff[i])

\* C8 as stated: in every index produced, the entries of each resolution
\* group are sorted by (creation is absent, creation, start offset), also
\* when files share a creation time or all lack one.
C8_SortedByTripleKey ==
    IndexProduced =>
        \A g \in 1..Len(index.groups) :
            LET ff == index.groups[g].file_fragments
            IN  \A i \in 1..(Len(ff) - 1) : TripleLeq(ff[i], ff[i + 1])

\* C8 amended: the entries of each group are sorted by (creation is absent,
\* creation) and the entries of one file by start offset; they are sorted
\* by the full triple whenever no two files of the group share a creation
\* time (or both lack one).
C8_SortedByCreationThenStartPerFile ==
    IndexProduced =>
        \A g \in 1..Len(index.groups) :
            LET ff == index.groups[g].file_fragments
            IN  \A i \in 1..(Len(ff) - 1) :
                    /\ ~EntryCreationLess(ff[i + 1], ff[i])
                    /\ ff[i].filename = ff[i + 1].filename
                           => ff[i].start <= ff[i + 1].start
                    /\ ~SharedCreation(ff) => TripleLeq(ff[i], ff[i + 1])

\* C8 witness: a group with the fragments of two files of different
\* creation times, one of them with two fragments that the metadata file
\* listed out of order.
C8_Witness ==
    /\ IndexProduced
    /\ \E g \in 1..Len(index.groups) :
           LET ff == index.groups[g].file_fragments
           IN  /\ Len(ff) = 3
               /\ ~SharedCreation(ff)
               /\ ff[1].filename # ff[3].filename
               /\ ff[1].filename = ff[2].filename /\ ff[1].start < ff[2].start
    /\ \E k \in 1..Len(json_files) :
           json_files[k].fragments = List(<<Item(3, 5), Item(0, 2)>>)

\* "1080x1920" and "1920x1080"
Key1080x1920 == <<49, 48, 56, 48, 120, 49, 57, 50, 48>>
Key1920x1080 == <<49, 57, 50, 48, 120, 49, 48, 56, 48>>

\* the resolution keys of the files that loaded
LoadedKeys ==
    {ResolutionKey(json_files[k].resolution).key :
        k \in {m \in 1..Len(json_files) : json_files[m].kind = "object"}}

\* C9: an index that is produced has exactly one group per distinct
\* resolution key of the loaded records, the groups in strictly ascending
\* lexicographic order of the key string; "1080x1920" precedes "1920x1080".
C9_GroupsAscendingOnePerKey ==
    IndexProduced =>
        /\ \A g \in 1..(Len(index.groups) - 1) :
               StrLess(index.groups[g].resolution, index.groups[g + 1].resolution)
        /\ {index.groups[g].resolution : g \in 1..Len(index.groups)} = LoadedKeys
        /\ \A g, h \in 1..Len(index.groups) :
               (index.groups[g].resolution = Key1080x1920
                   /\ index.groups[h].resolution = Key1920x1080) => g < h

\* C9 witness: the file read first is 1920x1080, the second 1080x1920, and
\* the index lists the group 1080x1920 first.
C9_Witness ==
    /\ IndexProduced
    /\ Len(json_files) = 2
    /\ ResolutionKey(json_files[1].resolution).key = Key1920x1080
    /\ Len(index.groups) = 2
    /\ index.groups[1].resolution = Key1080x1920
    /\ index.groups[2].resolution = Key1920x1080

\* the creation time of an index entry is that of its metadata file:
\* absent when the file has none or an unparsable one
CreationOfOwnFile(e) ==
    LET raw == json_files[e.filename.stem].creation_datetime
    IN  IF raw = None \/ raw[1].form = "bad" THEN e.creation = None
        ELSE e.creation # None /\ e.creation[1].instant = raw[1].instant

\* C10: in each group of a produced index the entries of one file are a
\* contiguous block in ascending start order; of two different files the
\* one with the earlier creation time comes first, a file without (or with
\* an unparsable) creation time after every file with one, and files with
\* equal or both absent creation times in the order they were read.
C10_FileBlocksInCreationOrder ==
    IndexProduced =>
        \A g \in 1..Len(index.groups) :
            LET ff == index.groups[g].file_fragments
            IN  /\ \A i \in 1..Len(ff) : CreationOfOwnFile(ff[i])
                /\ \A i, j \in 1..Len(ff) :
                       i < j =>
                           IF ff[i].filename = ff[j].filename
                           THEN /\ \A m \in i..j : ff[m].filename = ff[i].filename
                                /\ ff[i].start <= ff[j].start
                           ELSE \/ EntryCreationLess(ff[i], ff[j])
                                \/ /\ ~EntryCreationLess(ff[j], ff[i])
                                   /\ ff[i].filename.stem < ff[j].filename.stem

\* C10 witness: the file read first has no creation time and the file
\* read second has one and two fragments; the second file's block comes
\* first.
C10_Witness ==
    /\ IndexProduced
    /\ \E g \in 1..Len(index.groups) :
           LET ff == index.groups[g].file_fragments
           IN  /\ Len(ff) = 3
               /\ ff[1].filename.stem = 2 /\ ff[2].filename.stem = 2
               /\ ff[1].creation # None
               /\ ff[3].filename.stem = 1 /\ ff[3].creation = None

\* the creation times of the loaded records that parse are all offset-aware
\* or all offset-naive
OneAwareness ==
    \A k, m \in 1..Len(json_files) :
        (/\ json_files[k].kind = "object" /\ json_files[m].kind = "object"
         /\ ParseIsoDatetime(json_files[k].creation_datetime) # None
         /\ ParseIsoDatetime(json_files[m].creation_datetime) # None)
            => ParseIsoDatetime(json_files[k].creation_datetime)[1].aware
                   = ParseIsoDatetime(json_files[m].creation_datetime)[1].aware

\* the resolution of every loaded record is absent or a JSON object
ResolutionsAreObjects ==
    \A k \in 1..Len(json_files) :
        (json_files[k].kind = "object" /\ json_files[k].resolution # None)
            => json_files[k].resolution[1].shape = "object"

\* the fragment items of metadata file k that are not malformed
SoundItems(k) ==
    IF json_files[k].fragments.is_list
    THEN {i \in 1..Len(json_files[k].fragments.items) :
             /\ json_files[k].fragments.items[i].ok
             /\ json_files[k].fragments.items[i].end
                    >= json_files[k].fragments.items[i].start}
    ELSE {}

\* the index entries that carry the name of video k
EntriesOf(k) ==
    {p \in UNION {{g} \X (1..Len(index.groups[g].file_fragments)) :
                     g \in 1..Len(index.groups)} :
        index.groups[p[1]].file_fragments[p[2]].filename.stem = k}

\* every metadata object of the directory has its sound fragments in the
\* index, and no other file has any
EveryObjectIndexed ==
    \A k \in 1..Len(json_files) :
        Cardinality(EntriesOf(k)) =
            IF json_files[k].kind = "object" THEN Cardinality(SoundItems(k)) ELSE 0

\* C12: for every set of *.json files gather_index returns an index; a file
\* that is unreadable, no valid JSON or no metadata object (a top-level
\* array), and any malformed fragment entry, is skipped and the fragments
\* of every other file are indexed.  (Records whose resolution is no
\* object and directories mixing aware and naive creation times are left
\* out here.)
C12_DamagedFilesSkipped ==
    (pc = "done" /\ ResolutionsAreObjects /\ OneAwareness) =>
        ~index.raised /\ EveryObjectIndexed

\* C12 where the code agrees with it: without a file whose top level is a
\* JSON array
C12_WithoutArrayFiles ==
    (/\ pc = "done" /\ ResolutionsAreObjects /\ OneAwareness
     /\ \A k \in 1..Len(json_files) : json_files[k].kind # "array") =>
        ~index.raised /\ EveryObjectIndexed

\* a well-formed {width, height} pair of integers
WellFormedResolution(res) ==
    /\ res # None
    /\ res[1].shape = "object"
    /\ res[1].width # None /\ res[1].height # None
    /\ res[1].width[1].is_int /\ res[1].height[1].is_int

\* the resolution is JSON other than an object, or one of its fields is no
\* integer
OddResolution(res) ==
    /\ res # None
    /\ \/ res[1].shape = "other"
       \/ res[1].width # None /\ ~res[1].width[1].is_int
       \/ res[1].height # None /\ ~res[1].height[1].is_int

NoArrayFile == \A k \in 1..Len(json_files) : json_files[k].kind # "array"

\* the records with a malformed resolution are in the group "unknown", the
\* entries of records with an unparsable creation time carry none, the
\* index is returned and holds every record's fragments
MalformedMetadataDegrades ==
    /\ ~index.raised
    /\ EveryObjectIndexed
    /\ \A k \in 1..Len(json_files) :
           json_files[k].kind = "object" =>
               \A p \in EntriesOf(k) :
                   /\ ~WellFormedResolution(json_files[k].resolution)
                          => index.groups[p[1]].resolution = UnknownKey
                   /\ ParseIsoDatetime(json_files[k].creation_datetime) = None
                          => index.groups[p[1]].file_fragments[p[2]].creation = None

\* C13: a record whose resolution is no well-formed pair of integer width
\* and height (missing, null, no object, non-integer fields) is put into
\* the group "unknown", and a creation time that does not parse as
\* ISO-8601 is treated as absent; the run is not aborted and the record's
\* fragments are indexed.  (Top-level arrays and directories mixing aware
\* and naive creation times are left out here.)
C13_MalformedMetadataToUnknown ==
    (pc = "done" /\ NoArrayFile /\ OneAwareness) => MalformedMetadataDegrades

\* C13 where the code agrees with it: resolutions that are absent, or
\* objects whose fields are absent or integers
C13_MissingResolutionToUnknown ==
    (/\ pc = "done" /\ NoArrayFile /\ OneAwareness
     /\ \A k \in 1..Len(json_files) : ~OddResolution(json_files[k].resolution))
        => MalformedMetadataDegrades

\* C22: every fragment entry of the index gather_index produces has
\* numeric start and end with start < end; entries of a metadata file that
\* violate this, zero-length entries (start = end) included, are filtered
\* out.
C22_EntriesHavePositiveLength ==
    IndexProduced =>
        \A g \in 1..Len(index.groups) :
            \A i \in 1..Len(index.groups[g].file_fragments) :
                index.groups[g].file_fragments[i].start
                    < index.groups[g].file_fragments[i].end

\* C22 where the code agrees with it: no entry ends before it starts
C22_EntriesNotReversed ==
    IndexProduced =>
        \A g \in 1..Len(index.groups) :
            \A i \in 1..Len(index.groups[g].file_fragments) :
                index.groups[g].file_fragments[i].start
                    <= index.groups[g].file_fragments[i].end

\* the items of metadata file k with numeric start and end that satisfy
\* keep[start][end], as (start, end) pairs with their positions
ItemsOf(k, keep) ==
    IF json_files[k].kind = "object" /\ json_files[k].fragments.is_list
    THEN {i \in 1..Len(json_files[k].fragments.items) :
             /\ json_files[k].fragments.items[i].ok
             /\ keep[json_files[k].fragments.items[i].start]
                    [json_files[k].fragments.items[i].end]}
    ELSE {}

\* the index holds, for every metadata file k and every (start, end),
\* exactly as many entries named after video k as file k has items (start,
\* end) satisfying keep; each in the group of file k's resolution key and
\* with file k's creation time
ExactlyTheItems(keep) ==
    \A k \in 1..Len(json_files) :
        /\ \A p \in EntriesOf(k) :
               LET e == index.groups[p[1]].file_fragments[p[2]]
               IN  /\ json_files[k].kind = "object"
                   /\ index.groups[p[1]].resolution
                          = ResolutionKey(json_files[k].resolution).key
                   /\ CreationOfOwnFile(e)
                   /\ Cardinality({q \in EntriesOf(k) :
                          /\ index.groups[q[1]].file_fragments[q[2]].start = e.start
                          /\ index.groups[q[1]].file_fragments[q[2]].end = e.end})
                      = Cardinality({i \in ItemsOf(k, keep) :
                          /\ json_files[k].fragments.items[i].start = e.start
                          /\ json_files[k].fragments.items[i].end = e.end})
        /\ \A i \in ItemsOf(k, keep) :
               \E p \in EntriesOf(k) :
                   /\ index.groups[p[1]].file_fragments[p[2]].start
                          = json_files[k].fragments.items[i].start
                   /\ index.groups[p[1]].file_fragments[p[2]].end
                          = json_files[k].fragments.items[i].end

\* C24: the index neither loses nor duplicates fragments: each well-formed
\* fragment (numeric start and end, start < end) of each loadable file
\* record appears exactly once, in the group of its file's resolution key
\* and with its file's filename and creation time, and the index holds no
\* other entry.
C24_ExactlyTheWellFormedFragments ==
    IndexProduced =>
        ExactlyTheItems([s \in 0..5 |-> [e \in 0..5 |-> s < e]])

\* C24 where the code agrees with it: the same with zero-length fragments
\* (start = end) counted among those the index is to hold
C24_ExactlyTheKeptFragments ==
    IndexProduced =>
        ExactlyTheItems([s \in 0..5 |-> [e \in 0..5 |-> s <= e]])

(***************************************************************************)
(* create_playlist.py                                                       *)
(*                                                                          *)
(* A fragment's datetime is [aware, instant]: the creation time of its      *)
(* source plus the start offset, in ticks.  The name of an extracted file   *)
(* is [stamp, counter]: the formatted datetime and the number appended      *)
(* when that name is taken.                                                 *)
(***************************************************************************)
\* most metadata files behind the index a playlist is made from
MaxPlJson == 2

\* the keys gather_index gives an entry of index.json
EntryKeys == {"filename", "creation", "start", "end"}

\* what an index.json written by gather_index and then edited may lack: an
\* entry has lost one of its keys, or its creation string no longer parses
Damages == EntryKeys \cup {"unparsable"}

\* an entry of index.json as json.load returns it: `absent` holds the keys
\* the object lacks (the other fields of such an entry are then not read)
LoadedEntry(entry, damage) ==
    [filename |-> entry.filename, start |-> entry.start, end |-> entry.end,
     creation |-> IF damage = "unparsable"
                  THEN Some([form |-> "bad", instant |-> 0])
                  ELSE entry.creation,
     absent |-> IF damage \in EntryKeys THEN {damage} ELSE {}]

\* lines 25-32: the index gather_index wrote, entry i of group g damaged
LoadIndex(groups, g, i, damage) ==
    [h \in 1..Len(groups) |->
        [resolution |-> groups[h].resolution,
         file_fragments |->
             [j \in 1..Len(groups[h].file_fragments) |->
                 LoadedEntry(groups[h].file_fragments[j],
                             IF h = g /\ j = i THEN damage ELSE "intact")]]]

\* the entries of an index, as (group, position) pairs
EntryPositions(groups) ==
    UNION {{<<g, i>> : i \in 1..Len(groups[g].file_fragments)} :
              g \in 1..Len(groups)}

\* line 39: datetime.fromisoformat raises ValueError on such a string
Unparsable(creation_str) == creation_str.form = "bad"

\* lines 102-105 and 112: frag_entry[key] raises KeyError on an absent key,
\* and fragment_datetime raises on a creation string that does not parse;
\* neither is inside a try
EntryRaises(frag_entry) ==
    \/ frag_entry.absent # {}
    \/ frag_entry.creation # None /\ Unparsable(frag_entry.creation[1])

\* lines 35-39 on a string that parses, and lines 79-81
FragmentDatetime(creation_str, fragment_start_s) ==
    [aware |-> creation_str.form \in {"z", "offset"},
     instant |-> creation_str.instant + fragment_start_s]

\* lines 99-101: all entries of all groups, in index order
RECURSIVE Flatten(_, _)
Flatten(idx, g) ==
    IF g > Len(idx) THEN <<>>
    ELSE idx[g].file_fragments \o Flatten(idx, g + 1)

\* lines 113-123: the first free name for a fragment with that datetime
OutputFilename(frag_dt, extracted) ==
    [stamp |-> frag_dt.instant,
     counter |-> Cardinality({i \in 1..Len(extracted) :
                                 extracted[i].filename.stamp = frag_dt.instant})]

\* line 150: sorted(fragments, key=lambda x: x["fragment_datetime"])
SortByDatetime(frs) ==
    StableSort(frs, [i \in 1..Len(frs) |-> [j \in 1..Len(frs) |->
        frs[i].fragment_datetime.instant < frs[j].fragment_datetime.instant]])

\* comparing an offset-naive with an offset-aware datetime raises TypeError
MixedDatetimes(frs) ==
    \E i, j \in 1..Len(frs) :
        frs[i].fragment_datetime.aware /\ ~frs[j].fragment_datetime.aware

\* lines 147-165: the entries written, or that the sort raised
CreateM3uPlaylist(frs) ==
    IF MixedDatetimes(frs) THEN [raised |-> TRUE, entries |-> <<>>]
    ELSE LET fragments_sorted == SortByDatetime(frs)
         IN  [raised |-> FALSE,
              entries |-> [i \in 1..Len(fragments_sorted) |->
                  [duration_ms |-> (fragments_sorted[i].end
                                        - fragments_sorted[i].start) * 1000,
                   fragment_datetime |-> fragments_sorted[i].fragment_datetime,
                   source |-> fragments_sorted[i].source,
                   filename |-> fragments_sorted[i].filename]]]

(***************************************************************************)
(* Specification SpecPl: create_playlist over an index that gather_index    *)
(* built from drawn metadata files, as written or with one entry damaged;   *)
(* whether a source exists and whether ffmpeg extracts a fragment is drawn  *)
(* as the loop reaches it.                                                  *)
(***************************************************************************)
PlJsonInputs ==
    {JsonObject(Some([stem |-> 0, ext |-> "mp4"]), r, c, f) :
        r \in {None, Resolution(Some(IntValue(1920)), Some(IntValue(1080)))},
        c \in IdxCreations, f \in IdxFragmentLists}

InitPl ==
    /\ pc = "extract"
    /\ \E n \in 0..MaxPlJson :
           \E files \in [1..n -> PlJsonInputs] :
               LET made == GatherIndex([k \in 1..n |-> VideoNamed(files[k], k)])
               IN  /\ ~made.raised
                   /\ \/ index_data = LoadIndex(made.groups, 0, 0, "intact")
                      \/ \E at \in EntryPositions(made.groups), damage \in Damages :
                             index_data = LoadIndex(made.groups, at[1], at[2], damage)
    /\ pl_cuts = <<>>
    /\ fragments_extracted = <<>>
    /\ playlist = [raised |-> FALSE, entries |-> <<>>]
    /\ CoreIdle /\ CatIdle /\ RunIdle /\ MainIdle

\* lines 101-109: an entry without creation time is skipped
SkipFragment ==
    /\ pc = "extract"
    /\ Len(pl_cuts) < Len(Flatten(index_data, 1))
    /\ ~EntryRaises(Flatten(index_data, 1)[Len(pl_cuts) + 1])
    /\ Flatten(index_data, 1)[Len(pl_cuts) + 1].creation = None
    /\ pl_cuts' = Append(pl_cuts, FALSE)
    /\ UNCHANGED <<pc, index_data, fragments_extracted, playlist, coreVars, catVars, runVars, mainVars>>

\* lines 101-142: an entry with a creation time; the source is missing, or
\* ffmpeg fails, or the fragment is extracted
ExtractFragment ==
    /\ pc = "extract"
    /\ Len(pl_cuts) < Len(Flatten(index_data, 1))
    /\ LET frag_entry == Flatten(index_data, 1)[Len(pl_cuts) + 1]
       IN  /\ ~EntryRaises(frag_entry)
           /\ frag_entry.creation # None
           /\ \E outcome \in {"missing", "failed", "extracted"} :
                  LET frag_dt == FragmentDatetime(frag_entry.creation[1], frag_entry.start)
                  IN  IF outcome = "extracted"
                      THEN /\ pl_cuts' = Append(pl_cuts, TRUE)
                           /\ fragments_extracted' = Append(fragments_extracted,
                                  [filename |-> OutputFilename(frag_dt, fragments_extracted),
                                   fragment_datetime |-> frag_dt,
                                   start |-> frag_entry.start,
                                   end |-> frag_entry.end,
                                   source |-> frag_entry.filename])
                      ELSE /\ pl_cuts' = Append(pl_cuts, FALSE)
                           /\ UNCHANGED fragments_extracted
    /\ UNCHANGED <<pc, index_data, playlist, coreVars, catVars, runVars, mainVars>>

\* lines 102-112: the entry makes process_all_fragments raise; the run ends
\* with a traceback, no playlist is written
RaiseOnEntry ==
    /\ pc = "extract"
    /\ Len(pl_cuts) < Len(Flatten(index_data, 1))
    /\ EntryRaises(Flatten(index_data, 1)[Len(pl_cuts) + 1])
    /\ pc' = "raised"
    /\ UNCHANGED <<plVars, coreVars, catVars, runVars, mainVars>>

\* lines 217-220: the loops are exhausted and the playlist is written
WritePlaylist ==
    /\ pc = "extract"
    /\ Len(pl_cuts) = Len(Flatten(index_data, 1))
    /\ playlist' = CreateM3uPlaylist(fragments_extracted)
    /\ pc' = "done"
    /\ UNCHANGED <<index_data, pl_cuts, fragments_extracted, coreVars, catVars, runVars, mainVars>>

NextPl == SkipFragment \/ ExtractFragment \/ RaiseOnEntry \/ WritePlaylist

SpecPl == InitPl /\ [][NextPl]_vars

(***************************************************************************)
(* Claims about create_playlist (checked under SpecPl).                     *)
(***************************************************************************)
\* the index entries that have a creation time and were extracted
ExtractedEntries ==
    {i \in 1..Len(pl_cuts) : pl_cuts[i] /\ Flatten(index_data, 1)[i].creation # None}

\* the playlist lists exactly the extracted entries, one entry each under a
\* name of its own, in ascending order of creation time + start offset
PlaylistExactAndAscending ==
    /\ ~playlist.raised
    /\ Len(playlist.entries) = Cardinality(ExtractedEntries)
    /\ \A i \in ExtractedEntries :
           LET e == Flatten(index_data, 1)[i]
           IN  Cardinality({p \in 1..Len(playlist.entries) :
                               /\ playlist.entries[p].source = e.filename
                               /\ playlist.entries[p].fragment_datetime.instant
                                      = e.creation[1].instant + e.start
                               /\ playlist.entries[p].duration_ms = (e.end - e.start) * 1000})
                   = Cardinality({j \in ExtractedEntries :
                                     /\ Flatten(index_data, 1)[j].filename = e.filename
                                     /\ Flatten(index_data, 1)[j].start = e.start
                                     /\ Flatten(index_data, 1)[j].end = e.end})
    /\ \A p, q \in 1..Len(playlist.entries) :
           p < q =>
               /\ playlist.entries[p].filename # playlist.entries[q].filename
               /\ playlist.entries[p].fragment_datetime.instant
                      <= playlist.entries[q].fragment_datetime.instant

\* C14: the playlist create_m3u_playlist writes lists exactly the fragments
\* that have a creation time and were extracted, one entry each, in
\* ascending order of absolute timestamp (creation time + start offset),
\* whatever resolution group or index position they came from.
C14_PlaylistExactAndAscending == pc = "done" => PlaylistExactAndAscending

\* C14 where the code agrees with it: the extracted fragments' creation
\* times are all offset-aware or all offset-naive
C14_OneAwareness ==
    (pc = "done" /\ ~MixedDatetimes(fragments_extracted)) => PlaylistExactAndAscending

(***************************************************************************)
(* concatenate_fragments.py                                                 *)
(*                                                                          *)
(* The intermediate file of a cut is named after the index position of its  *)
(* entry (frag_idx), so a work directory is the set of positions whose      *)
(* file it holds.  What ffmpeg does is drawn: a cut is "extracted", or      *)
(* "failed" leaving nothing, or "partial" (ffmpeg failed, or was killed at  *)
(* the timeout, after it had begun to write the output file), or the        *)
(* source is "missing"; concatenation and muxing succeed or fail.  The      *)
(* work directory of a group is made with exist_ok: it may be "stale",      *)
(* holding files under other names that an earlier run kept (position 0).   *)
(***************************************************************************)
\* most metadata files behind the index that is concatenated
MaxCatJson == 2

CutOutcomes == {"missing", "failed", "partial", "extracted"}

\* lines 224-230: `not filename or start is None or end is None`
SkippedAsMalformed(frag_info) ==
    frag_info.absent \cap {"filename", "start", "end"} # {}

\* lines 223-249: what may happen to the entries of a group: a malformed
\* entry is passed over, any other is cut with one of the outcomes
CutsOf(file_fragments) ==
    {cuts \in [1..Len(file_fragments) -> CutOutcomes \cup {"malformed"}] :
        \A i \in 1..Len(file_fragments) :
            cuts[i] = "malformed" <=> SkippedAsMalformed(file_fragments[i])}

\* line 138: frag_info.get("filename", "unknown")
Unknown == [stem |-> 0, ext |-> "unknown"]

\* lines 223-249: the positions appended to extracted_fragments, in order
RECURSIVE ExtractedFragments(_, _)
ExtractedFragments(cuts, i) ==
    IF i > Len(cuts) THEN <<>>
    ELSE IF cuts[i] = "extracted" THEN <<i>> \o ExtractedFragments(cuts, i + 1)
    ELSE ExtractedFragments(cuts, i + 1)

\* lines 246-247: the keys of fragment_durations; the value of (start, end)
\* is end - start
FragmentDurations(file_fragments, cuts) ==
    {<<file_fragments[i].start, file_fragments[i].end>> :
        i \in {j \in 1..Len(cuts) : cuts[j] = "extracted"}}

\* line 144: fragment_durations.get(frag_key, 1.0)
DurationOf(frag_info, fragment_durations) ==
    IF /\ frag_info.absent \cap {"start", "end"} = {}
       /\ <<frag_info.start, frag_info.end>> \in fragment_durations
    THEN frag_info.end - frag_info.start
    ELSE 1

\* lines 137-161: the loop from entry i on, at current_time, with the
\* filenames shown so far; a subtitle is [filename, start]
RECURSIVE SubtitlesFrom(_, _, _, _, _)
SubtitlesFrom(file_fragments, fragment_durations, i, current_time, shown_filenames) ==
    IF i > Len(file_fragments) THEN <<>>
    ELSE LET frag_info == file_fragments[i]
             filename == IF "filename" \in frag_info.absent THEN Unknown
                         ELSE frag_info.filename
             duration == DurationOf(frag_info, fragment_durations)
         IN  IF filename \notin shown_filenames
             THEN <<[filename |-> filename, start |-> current_time]>>
                  \o SubtitlesFrom(file_fragments, fragment_durations, i + 1,
                                   current_time + duration,
                                   shown_filenames \cup {filename})
             ELSE SubtitlesFrom(file_fragments, fragment_durations, i + 1,
                                current_time + duration, shown_filenames)

\* lines 126-163
GenerateSubtitlesSrt(file_fragments, fragment_durations) ==
    SubtitlesFrom(file_fragments, fragment_durations, 1, 0, {})

\* lines 217-249: the files in the work directory after the cuts
FilesAfterCuts(cuts, stale) ==
    {i \in 1..Len(cuts) : cuts[i] \in {"partial", "extracted"}}
        \cup (IF stale THEN {0} ELSE {})

\* lines 208-285: one iteration of the loop over the groups.  rmdir of a
\* directory that is not empty raises OSError.
ProcessGroupResult(group, keep, stale, cuts, concat_ok, mux_ok) ==
    LET extracted_fragments == ExtractedFragments(cuts, 1)
        files == FilesAfterCuts(cuts, stale)
        base == [stale |-> stale, cuts |-> cuts, extracted_fragments |-> extracted_fragments,
                 concat |-> "not_called", mux |-> "not_called", srt |-> <<>>,
                 work_files |-> files, work_dir |-> TRUE, raised |-> FALSE]
    IN  IF Len(extracted_fragments) = 0
        THEN IF files = {}
             THEN [base EXCEPT !.work_dir = FALSE]
             ELSE [base EXCEPT !.raised = TRUE]
        ELSE IF ~concat_ok THEN [base EXCEPT !.concat = "failed"]
        ELSE LET muxed == [base EXCEPT
                               !.concat = "ok",
                               !.srt = GenerateSubtitlesSrt(group.file_fragments,
                                           FragmentDurations(group.file_fragments, cuts)),
                               !.mux = IF mux_ok THEN "ok" ELSE "failed"]
                 left == files \ {extracted_fragments[i] :
                                     i \in 1..Len(extracted_fragments)}
             IN  IF keep THEN muxed
                 ELSE IF left = {}
                     THEN [muxed EXCEPT !.work_files = {}, !.work_dir = FALSE]
                     ELSE [muxed EXCEPT !.work_files = left, !.raised = TRUE]

(***************************************************************************)
(* Specification SpecCat: process_index over an index that gather_index     *)
(* built from drawn metadata files, as written or with one entry damaged,   *)
(* into an output directory without work directories.                       *)
(***************************************************************************)
CatJsonInputs ==
    {JsonObject(Some([stem |-> 0, ext |-> "mp4"]), r,
                Some([form |-> "naive", instant |-> 1]), f) :
        r \in {None, Resolution(Some(IntValue(1920)), Some(IntValue(1080)))},
        f \in IdxFragmentLists}

InitCat ==
    /\ pc = "groups"
    /\ \E n \in 0..MaxCatJson :
           \E files \in [1..n -> CatJsonInputs] :
               LET made == GatherIndex([k \in 1..n |-> VideoNamed(files[k], k)])
               IN  \/ cat_index = LoadIndex(made.groups, 0, 0, "intact")
                   \/ \E at \in EntryPositions(made.groups), damage \in Damages :
                          cat_index = LoadIndex(made.groups, at[1], at[2], damage)
    /\ keep_fragments \in BOOLEAN
    /\ group_idx = 0
    /\ group_log = <<>>
    /\ CoreIdle /\ PlIdle /\ RunIdle /\ MainIdle

\* lines 208-285: the next group
ProcessGroup ==
    /\ pc = "groups"
    /\ group_idx < Len(cat_index)
    /\ LET group == cat_index[group_idx + 1]
       IN  \E cuts \in CutsOf(group.file_fragments),
              stale \in BOOLEAN, concat_ok \in BOOLEAN, mux_ok \in BOOLEAN :
              LET done == ProcessGroupResult(group, keep_fragments, stale, cuts,
                                             concat_ok, mux_ok)
              IN  /\ group_log' = Append(group_log, done)
                  /\ group_idx' = group_idx + 1
                  /\ pc' = IF done.raised THEN "raised" ELSE "groups"
    /\ UNCHANGED <<cat_index, keep_fragments, coreVars, plVars, runVars, mainVars>>

\* line 208: the loop over the groups is exhausted
EndOfIndex ==
    /\ pc = "groups"
    /\ group_idx = Len(cat_index)
    /\ pc' = "done"
    /\ UNCHANGED <<catVars, coreVars, plVars, runVars, mainVars>>

NextCat == ProcessGroup \/ EndOfIndex

SpecCat == InitCat /\ [][NextCat]_vars

(***************************************************************************)
(* Claims about process_index (checked under SpecCat).                      *)
(***************************************************************************)
\* the list handed to concatenation for logged group g is the subsequence
\* of the group's entries whose cut succeeded, in index order, and
\* concatenation was attempted iff that list is not empty
HandedListIsSuccessSubsequence(g) ==
    LET done == group_log[g]
        handed == done.extracted_fragments
    IN  /\ \A i \in 1..(Len(handed) - 1) : handed[i] < handed[i + 1]
        /\ {handed[i] : i \in 1..Len(handed)}
               = {i \in 1..Len(done.cuts) : done.cuts[i] = "extracted"}
        /\ (done.concat # "not_called") <=> (Len(handed) > 0)

\* C15: for every group and every pattern of cut successes and failures the
\* list handed to concatenation is exactly the subsequence of the group's
\* entries whose cut succeeded, in index order; concatenation is attempted
\* iff that list is non-empty; and a failed cut or a failed concatenation
\* in one group never keeps the following groups from being processed (the
\* loop over the groups is not left by an exception).
C15_SuccessfulCutsConcatenated ==
    /\ \A g \in 1..Len(group_log) : HandedListIsSuccessSubsequence(g)
    /\ pc \in {"groups", "done"}

\* C15 without its last part, where the code agrees with it
C15_HandedList ==
    \A g \in 1..Len(group_log) : HandedListIsSuccessSubsequence(g)

\* no cut of logged group g left a partial file and its work directory
\* was not stale
NothingLeftBehind(g) ==
    /\ ~group_log[g].stale
    /\ \A i \in 1..Len(group_log[g].cuts) : group_log[g].cuts[i] # "partial"

\* C15's last part where the code agrees with it: cuts that fail leave no
\* file behind, in work directories that were new
C15_CleanFailuresLeaveLoopRunning ==
    (\A g \in 1..Len(group_log) : NothingLeftBehind(g))
        => pc \in {"groups", "done"}

\* C19: with keep_fragments false, after process_index has finished a
\* group none of its intermediate fragment files and no work directory for
\* it remain, whatever the outcome of the cuts, the concatenation and the
\* muxing.
C19_NoIntermediateFilesRemain ==
    ~keep_fragments =>
        \A g \in 1..Len(group_log) :
            group_log[g].work_files = {} /\ ~group_log[g].work_dir

\* C19 where the code agrees with it: no cut left a partial file and the
\* concatenation, when attempted, succeeded
C19_AfterSuccessfulConcatenation ==
    ~keep_fragments =>
        \A g \in 1..Len(group_log) :
            (group_log[g].concat # "failed" /\ NothingLeftBehind(g))
                => group_log[g].work_files = {} /\ ~group_log[g].work_dir

\* the source filenames of index group g
GroupFilenames(g) ==
    {cat_index[g].file_fragments[i].filename :
        i \in 1..Len(cat_index[g].file_fragments)}

\* the position in the merged video of logged group g at which the cut of
\* entry i begins: the durations of the extracted fragments before it
RECURSIVE MergedPosition(_, _)
MergedPosition(g, i) ==
    IF i <= 1 THEN 0
    ELSE MergedPosition(g, i - 1)
         + IF group_log[g].cuts[i - 1] = "extracted"
           THEN cat_index[g].file_fragments[i - 1].end
                    - cat_index[g].file_fragments[i - 1].start
           ELSE 0

\* the subtitles of logged group g: one per source filename, each at the
\* position where the first extracted fragment of its file begins
SubtitlesAtFileStarts(g) ==
    LET srt == group_log[g].srt
        ff == cat_index[g].file_fragments
    IN  /\ Len(srt) = Cardinality(GroupFilenames(g))
        /\ {srt[k].filename : k \in 1..Len(srt)} = GroupFilenames(g)
        /\ \A k \in 1..Len(srt) :
               \A i \in 1..Len(ff) :
                   (/\ ff[i].filename = srt[k].filename
                    /\ group_log[g].cuts[i] = "extracted"
                    /\ \A j \in 1..(i - 1) :
                           ff[j].filename = srt[k].filename
                               => group_log[g].cuts[j] # "extracted")
                       => srt[k].start = MergedPosition(g, i)

\* C20: generate_subtitles_srt emits exactly one subtitle per distinct
\* source filename of the group, its start time the position in the merged
\* video at which that file's first fragment begins (the sum of the
\* durations of the fragments before it in the concatenated output), for
\* every pattern of fragments skipped or failed to extract.
C20_SubtitlesAtFileStarts ==
    \A g \in 1..Len(group_log) :
        group_log[g].concat = "ok" => SubtitlesAtFileStarts(g)

\* C20 where the code agrees with it: every fragment of the group was
\* extracted
C20_AllFragmentsExtracted ==
    \A g \in 1..Len(group_log) :
        (/\ group_log[g].concat = "ok"
         /\ \A i \in 1..Len(group_log[g].cuts) : group_log[g].cuts[i] = "extracted")
            => SubtitlesAtFileStarts(g)

(***************************************************************************)
(* run_all.py                                                               *)
(*                                                                          *)
(* A stage script is started as a subprocess and run_all waits for it; the  *)
(* model draws whether the script file exists and the status the            *)
(* subprocess returns.  stages logs every script started with the status    *)
(* it returned.                                                             *)
(***************************************************************************)
ReturnCodes == {0, 1, 2}

\* a mutant of RunCommand, against which C16 is tested: a failed
\* command is reported as successful
RunCommandIgnoringFailure(returncode) == TRUE

\* lines 25-32: subprocess.run(cmd, check=True) raises CalledProcessError on
\* a non-zero status, which is caught and answered with False
RunCommand(returncode) == returncode = 0

\* lines 81-83, 95-97, 114-116, 129-131: run one stage script; on failure
\* "... failed - aborting" and SystemExit(1)
StartStage(name, returncode, next) ==
    /\ stages' = Append(stages, [name |-> name, returncode |-> returncode])
    /\ IF RunCommand(returncode)
       THEN pc' = next /\ UNCHANGED exit_status
       ELSE pc' = "exited" /\ exit_status' = Some(1)

\* lines 70-72, 89-91, 99-101, 108-110, 120-122: the script (or, with
\* indexing skipped, index.json) is not there: SystemExit(2)
MissingFile ==
    /\ pc' = "exited" /\ exit_status' = Some(2)
    /\ UNCHANGED stages

InitRun ==
    /\ pc = "step1"
    /\ args \in [skip_noshake : BOOLEAN, skip_index : BOOLEAN, skip_concat : BOOLEAN,
                 playlist : BOOLEAN, keep_fragments : BOOLEAN]
    /\ stages = <<>>
    /\ exit_status = None
    /\ reported = FALSE
    /\ CoreIdle /\ PlIdle /\ CatIdle /\ MainIdle

\* lines 67-83
StepNoshake ==
    /\ pc = "step1"
    /\ IF args.skip_noshake
       THEN pc' = "step2" /\ UNCHANGED <<stages, exit_status>>
       ELSE \E exists \in BOOLEAN, returncode \in ReturnCodes :
                IF exists THEN StartStage("noshake", returncode, "step2")
                ELSE MissingFile
    /\ UNCHANGED <<args, reported, coreVars, plVars, catVars, mainVars>>

\* lines 85-101
StepIndex ==
    /\ pc = "step2"
    /\ IF args.skip_index
       THEN \E index_json_exists \in BOOLEAN :
                IF index_json_exists
                THEN pc' = "step3" /\ UNCHANGED <<stages, exit_status>>
                ELSE MissingFile
       ELSE \E exists \in BOOLEAN, returncode \in ReturnCodes :
                IF exists THEN StartStage("index_by_resolution", returncode, "step3")
                ELSE MissingFile
    /\ UNCHANGED <<args, reported, coreVars, plVars, catVars, mainVars>>

\* lines 103-131
StepConcatOrPlaylist ==
    /\ pc = "step3"
    /\ IF args.skip_concat
       THEN pc' = "report" /\ UNCHANGED <<stages, exit_status>>
       ELSE \E exists \in BOOLEAN, returncode \in ReturnCodes :
                IF ~exists THEN MissingFile
                ELSE IF args.playlist
                    THEN StartStage("create_playlist", returncode, "report")
                    ELSE StartStage("concatenate_fragments", returncode, "report")
    /\ UNCHANGED <<args, reported, coreVars, plVars, catVars, mainVars>>

\* lines 133-134: "Pipeline completed", and the script ends with status 0
ReportCompleted ==
    /\ pc = "report"
    /\ reported' = TRUE
    /\ exit_status' = Some(0)
    /\ pc' = "exited"
    /\ UNCHANGED <<args, stages, coreVars, plVars, catVars, mainVars>>

NextRun == StepNoshake \/ StepIndex \/ StepConcatOrPlaylist \/ ReportCompleted

SpecRun == InitRun /\ [][NextRun]_vars

(***************************************************************************)
(* Claims about run_all (checked under SpecRun).                            *)
(***************************************************************************)
\* the place of a stage in the pipeline
StageRank(name) ==
    IF name = "noshake" THEN 1
    ELSE IF name = "index_by_resolution" THEN 2
    ELSE 3

\* the stage was started and succeeded
Succeeded(name) ==
    \E i \in 1..Len(stages) : stages[i].name = name /\ stages[i].returncode = 0

\* C16: the stages run strictly in the order noshake -> index_by_resolution
\* -> (concatenate_fragments or create_playlist, never both); a stage is
\* started only after every earlier stage that was not skipped has
\* succeeded; and as soon as a stage has failed the run has exited with
\* status 1, no later stage is started and "Pipeline completed" is not
\* reported.
C16_StagesInOrderAbortOnFailure ==
    /\ \A i, j \in 1..Len(stages) :
           i < j => StageRank(stages[i].name) < StageRank(stages[j].name)
    /\ \A i \in 1..Len(stages) :
           /\ StageRank(stages[i].name) >= 2 =>
                  (args.skip_noshake \/ Succeeded("noshake"))
           /\ StageRank(stages[i].name) = 3 =>
                  (args.skip_index \/ Succeeded("index_by_resolution"))
           /\ stages[i].name = "create_playlist" => args.playlist
           /\ stages[i].name = "concatenate_fragments" => ~args.playlist
           /\ stages[i].returncode # 0 =>
                  /\ i = Len(stages)
                  /\ exit_status = Some(1)
                  /\ pc = "exited"
                  /\ ~reported
    /\ reported => \A i \in 1..Len(stages) : stages[i].returncode = 0

\* C16 witness: noshake and index_by_resolution succeeded and the third
\* stage failed; the run has exited with status 1 without reporting.
C16_Witness ==
    /\ Len(stages) = 3
    /\ stages[1].returncode = 0 /\ stages[2].returncode = 0
    /\ stages[3].returncode # 0
    /\ exit_status = Some(1)
    /\ ~reported

(***************************************************************************)
(* Claims about the sliding window of cori_sliding_rms (checked under       *)
(* SpecRms).                                                                *)
(***************************************************************************)
\* the call returned a motion signal of at least 2 samples
RmsReturned == RmsDone /\ ~rms_out.raised /\ SampleCount >= 2

\* the squares of the returned acceleration
SquaredAcc == [i \in 1..Len(rms_out.angle_acc) |->
                  rms_out.angle_acc[i] * rms_out.angle_acc[i]]

\* the same-length centered moving sum of squares with window w: entry k
\* (1-based) covers the w positions from k - w \div 2 on that lie inside sq
CenteredMovingSum(sq, w) ==
    [k \in 1..Len(sq) |->
        SumOver(sq, Max(1, k - w \div 2), Min(Len(sq), k - w \div 2 + w - 1))]

\* out is c re-aligned: out[i] = c[i + w // 2] up to the last w // 2
\* positions, which hold c's last value, and out[i] covers acceleration
\* [i .. i + w - 1] wherever that window lies inside the signal
RealignedMovingRms ==
    LET n == Len(rms_out.t)
        w == rms_out.win_samples
        c == CenteredMovingSum(SquaredAcc, w)
        out == rms_out.sliding_rms
    IN  /\ Len(out) = n
        /\ \A i \in 1..n :
               /\ i <= n - w \div 2 => out[i] = c[i + w \div 2]
               /\ i > n - w \div 2 => out[i] = c[n]
               /\ i + w - 1 <= n => out[i] = SumOver(SquaredAcc, i, i + w - 1)

\* C17: with window length w and n samples the intensity signal is the
\* same-length centered moving RMS c of the acceleration, re-aligned as
\* out[i] = c[i + w // 2] for 0 <= i < n - w // 2 and out[i] = c[n - 1] for
\* the remaining w // 2 tail positions; out[i] is the RMS of
\* acceleration[i .. i + w - 1] wherever that window lies inside the signal.
C17_RealignedMovingRms == RmsReturned => RealignedMovingRms

\* C17 where the code agrees with it: windows no longer than the clip
C17_WindowWithinClip ==
    (RmsReturned /\ rms_out.win_samples <= Len(rms_out.t)) => RealignedMovingRms

\* round(a / b) for a >= 0, b > 0, as Python rounds (halves to the even
\* neighbour)
RoundRatio(a, b) ==
    LET q == a \div b
        r == a % b
    IN  IF 2 * r < b THEN q
        ELSE IF 2 * r > b THEN q + 1
        ELSE IF q % 2 = 0 THEN q ELSE q + 1

\* C18: the window length in samples is max(1, round(window_seconds *
\* sampling_rate)) with sampling_rate = 1 / median(consecutive timestamp
\* differences), for every window_seconds and sampling rate, also when the
\* product has a fractional part of 0.5 or more.
C18_WindowIsRoundedProduct ==
    RmsReturned =>
        rms_out.win_samples
            = Max(1, RoundRatio(2 * sliding_window_s, TwiceDt(rms_out.t)))

\* C18 where the code agrees with it: the product's fractional part is
\* below 0.5
C18_FractionBelowHalf ==
    (RmsReturned
        /\ 2 * ((2 * sliding_window_s) % TwiceDt(rms_out.t)) < TwiceDt(rms_out.t))
        => rms_out.win_samples
               = Max(1, RoundRatio(2 * sliding_window_s, TwiceDt(rms_out.t)))

(***************************************************************************)
(* Malformed index entries in the two consumers of index.json              *)
(***************************************************************************)
\* an index entry is malformed: it lacks its filename, start, end or
\* creation field, or its creation string does not parse
MalformedEntry(e) ==
    \/ e.absent \cap {"filename", "start", "end", "creation"} # {}
    \/ e.creation # None /\ e.creation[1].form = "bad"

\* process_all_fragments, once its run has ended, has taken every entry of
\* the index and has extracted no malformed one
ProcessAllFragmentsSkips ==
    pc \in {"done", "raised"} =>
        /\ Len(pl_cuts) = Len(Flatten(index_data, 1))
        /\ \A i \in 1..Len(pl_cuts) :
               MalformedEntry(Flatten(index_data, 1)[i]) => ~pl_cuts[i]

\* process_index has, in every group it took, passed over the malformed
\* entries and gone on to every other entry
ProcessIndexSkips ==
    \A g \in 1..Len(group_log) :
        /\ DOMAIN group_log[g].cuts = 1..Len(cat_index[g].file_fragments)
        /\ \A i \in 1..Len(cat_index[g].file_fragments) :
               MalformedEntry(cat_index[g].file_fragments[i])
                   <=> group_log[g].cuts[i] = "malformed"

\* C21: in both index consumers (process_index and process_all_fragments)
\* an index entry that is malformed (missing filename, start, end or
\* creation field, or an unparsable creation string) is skipped, and every
\* later entry of the index is still processed.
C21_MalformedEntriesSkipped == ProcessAllFragmentsSkips /\ ProcessIndexSkips

\* C21 where create_playlist agrees with it: an index without malformed
\* entries is walked to its end, its entries without creation time skipped
C21_SoundIndexWalkedToEnd ==
    (\A i \in 1..Len(Flatten(index_data, 1)) :
         ~MalformedEntry(Flatten(index_data, 1)[i]))
        => /\ pc # "raised"
           /\ pc = "done" => Len(pl_cuts) = Len(Flatten(index_data, 1))
           /\ \A i \in 1..Len(pl_cuts) :
                  Flatten(index_data, 1)[i].creation = None => ~pl_cuts[i]

\* C21 where process_index agrees with it: an entry without filename, start
\* or end is passed over, every other entry of the group is cut, and no
\* malformed entry ends the loop over the groups
C21_ProcessIndexPassesOver ==
    /\ \A g \in 1..Len(group_log) :
           /\ DOMAIN group_log[g].cuts = 1..Len(cat_index[g].file_fragments)
           /\ \A i \in 1..Len(cat_index[g].file_fragments) :
                  (cat_index[g].file_fragments[i].absent
                       \cap {"filename", "start", "end"} # {})
                      <=> group_log[g].cuts[i] = "malformed"
    /\ pc = "done" => Len(group_log) = Len(cat_index)
    /\ pc = "raised" =>
           LET last == group_log[Len(group_log)]
           IN  \E i \in DOMAIN last.cuts : last.cuts[i] \in {"partial", "extracted"}
                   \/ last.stale

(***************************************************************************)
(* index_by_resolution.py: main run more than once on one directory        *)
(***************************************************************************)
MaxRuns == 2

\* index.json as load_json_file returns it: json.dump of the list
\* gather_index returned, so a top-level array
IndexJson ==
    [kind |-> "array", video |-> None, resolution |-> None,
     creation_datetime |-> None, fragments |-> List(<<>>)]

HoldsIndexJson(files) == \E k \in 1..Len(files) : files[k] = IndexJson

\* lines 142-145: out_path is written; inside the scanned directory it is
\* one more *.json file, at the place its name has in sorted path order
\* (pos files sort before it); a file already there is overwritten
WriteIndex(files, pos) ==
    IF HoldsIndexJson(files) THEN files
    ELSE [k \in 1..(Len(files) + 1) |->
             IF k <= pos THEN files[k]
             ELSE IF k = pos + 1 THEN IndexJson
             ELSE files[k - 1]]

InitMain ==
    /\ pc = "shell"
    /\ \E n \in 0..MaxJson :
           \E files \in [1..n -> PlJsonInputs] :
               json_files = [k \in 1..n |-> VideoNamed(files[k], k)]
    /\ index = [raised |-> FALSE, groups |-> <<>>]
    /\ out_in_directory \in BOOLEAN
    /\ runs = <<>>
    /\ SegIdle /\ RmsIdle /\ DirIdle /\ ParamsIdle
    /\ PlIdle /\ CatIdle /\ RunIdle

\* lines 130-147: one run of main; gather_index raising ends the run with a
\* traceback before anything is written
RunMain ==
    /\ pc = "shell"
    /\ Len(runs) < MaxRuns
    /\ index' = GatherIndex(json_files)
    /\ runs' = Append(runs, index')
    /\ IF ~index'.raised /\ out_in_directory
       THEN \E pos \in 0..Len(json_files) :
                json_files' = WriteIndex(json_files, pos)
       ELSE UNCHANGED json_files
    /\ UNCHANGED <<pc, out_in_directory, params, segVars, rmsVars, dirVars,
                   plVars, catVars, runVars>>

NextMain == RunMain

SpecMain == InitMain /\ [][NextMain]_vars

\* C23: building the index is repeatable: a second run on the same
\* directory, after a first run has written its output file (index.json by
\* default) into that scanned directory, completes and produces the same
\* index as the first run.
C23_SecondRunRepeatsFirst ==
    (Len(runs) >= 2 /\ out_in_directory /\ ~runs[1].raised) =>
        (~runs[2].raised /\ runs[2].groups = runs[1].groups)

\* C23 where the code agrees with it: with the output file written outside
\* the scanned directory every run returns what the first returned
C23_OutputElsewhereRepeats ==
    (Len(runs) >= 2 /\ ~out_in_directory) => runs[2] = runs[1]

====
